---------------------------- MODULE Spec2Model ----------------------------
(***************************************************************************)
(* Turtle-Chemistry-World: the Formula algebra, the stoichiometric         *)
(* balancer and the tick-driven ChemicalSystem engine of                   *)
(* src/turtle_chemistry_world/chemical_entity.                             *)
(*                                                                         *)
(* Python floats are modelled by exact rationals <<numerator, denominator>>*)
(* kept in lowest terms with a positive denominator, so that two equal     *)
(* numbers are equal tuples.  Amounts are counted in units of 1e-12 mol,   *)
(* the unit in which the clearing threshold AMOUNT_CLEAR is 1; every       *)
(* formula of the engine is homogeneous in the amount, so the unit only    *)
(* fixes how the threshold is written.                                     *)
(*                                                                         *)
(* A Python exception is modelled by an "err" field that names it; the     *)
(* state it leaves behind is the state mutated so far.                     *)
(***************************************************************************)
EXTENDS Integers, Sequences, FiniteSets, TLC

VARIABLES
    matters,      \* ChemicalSystem.matters: substance -> Matter
    reactions,    \* the reaction list handed to run()
    tick,         \* the tick length handed to run()
    ticks,        \* number of run() calls made so far
    last,         \* what the last run() call did (history, for the properties)
    fcase,        \* Formula algebra: the operands and the operation applied
    bcase,        \* BalanceReaction: the participants and the outcome
    mcase         \* Matter methods called directly: operands and outcome

vars == <<matters, reactions, tick, ticks, last, fcase, bcase, mcase>>

\* ------------------------------------------------------------- bounds
MaxTicks == 3
MaxReactions == 2
\* run() is not followed further once a temperature or an amount needs a
\* denominator above this (the exact arithmetic would leave the machine integers)
MaxDenominator == 50
\* Formula algebra: the largest element count, valence magnitude and scale factor
MaxCount == 2
MaxValence == 3
MaxScale == 2
\* Matter methods called directly: the largest amount of an operand
MaxAmount == 2
\* BalanceReaction: the largest number of participants
MaxParticipants == 3
\* run() is not followed further once an amount or a temperature is larger than
\* these (amounts in units of AMOUNT_CLEAR)
MaxQuantity == 24
MaxTemperature == 500

\* ------------------------------------------------------------- rationals
Abs(n) == IF n < 0 THEN -n ELSE n

RECURSIVE GCD(_, _)
GCD(a, b) == IF b = 0 THEN a ELSE GCD(b, a % b)

RNorm(n, d) ==
    LET g == GCD(Abs(n), Abs(d))
        s == IF d < 0 THEN -1 ELSE 1
    IN  <<(s * n) \div g, (s * d) \div g>>

R(n) == <<n, 1>>

\* the arithmetic cancels common factors before it multiplies, so that the
\* intermediate products stay as small as the result allows
RAdd(a, b) ==
    LET g == GCD(a[2], b[2])
    IN  RNorm(a[1] * (b[2] \div g) + b[1] * (a[2] \div g), (a[2] \div g) * b[2])
RSub(a, b) ==
    LET g == GCD(a[2], b[2])
    IN  RNorm(a[1] * (b[2] \div g) - b[1] * (a[2] \div g), (a[2] \div g) * b[2])
RMul(a, b) ==
    LET g1 == GCD(Abs(a[1]), b[2])
        g2 == GCD(Abs(b[1]), a[2])
    IN  RNorm((a[1] \div g1) * (b[1] \div g2), (a[2] \div g2) * (b[2] \div g1))
RInv(b) == IF b[1] < 0 THEN <<-b[2], -b[1]>> ELSE <<b[2], b[1]>>
RDiv(a, b) == RMul(a, RInv(b))
RNeg(a) == <<-a[1], a[2]>>
\* a < b, comparing the integer parts first and the fractional parts after
RFloor(a) == a[1] \div a[2]
RLt(a, b) ==
    IF RFloor(a) # RFloor(b) THEN RFloor(a) < RFloor(b)
    ELSE LET g == GCD(a[2], b[2])
         IN  (a[1] % a[2]) * (b[2] \div g) < (b[1] % b[2]) * (a[2] \div g)
RLe(a, b) == a = b \/ RLt(a, b)
RMin(a, b) == IF RLe(a, b) THEN a ELSE b
RAbs(a) == <<Abs(a[1]), a[2]>>
RZero == <<0, 1>>

\* ------------------------------------------------------------- elements
Elements == {"h", "o", "fe", "s"}

ElementMass(e) ==
    CASE e = "h" -> 1
      [] e = "o" -> 16
      [] e = "fe" -> 56
      [] e = "s" -> 32

\* ------------------------------------------------------------- Formula
RECURSIVE SumOver(_, _)
SumOver(S, f) ==
    IF S = {} THEN 0
    ELSE LET x == CHOOSE y \in S : TRUE IN f[x] + SumOver(S \ {x}, f)

Formula(element_count, valence) ==
    [element_count |-> element_count, valence |-> valence]

FormulaRelativeMass(f) ==
    SumOver(DOMAIN f.element_count,
            [e \in DOMAIN f.element_count |-> ElementMass(e) * f.element_count[e]])

FormulaMul(f, t) ==
    Formula([e \in DOMAIN f.element_count |-> f.element_count[e] * t], f.valence * t)

FormulaAdd(f, g) ==
    Formula([e \in DOMAIN f.element_count \cup DOMAIN g.element_count |->
                IF e \in DOMAIN f.element_count
                THEN IF e \in DOMAIN g.element_count
                     THEN f.element_count[e] + g.element_count[e]
                     ELSE f.element_count[e]
                ELSE g.element_count[e]],
            f.valence + g.valence)

\* math.lcm: the least common multiple of the absolute values, 0 if either is 0
Lcm(a, b) == IF a = 0 \/ b = 0 THEN 0 ELSE (Abs(a) * Abs(b)) \div GCD(Abs(a), Abs(b))

AndRaisesMut(f, g) == f.valence * g.valence = 0

AndRaises(f, g) == f.valence * g.valence >= 0

AndT1Mut(f, g) == Lcm(f.valence, g.valence) \div Abs(g.valence)

AndT1(f, g) == Lcm(f.valence, g.valence) \div Abs(f.valence)

AndT2(f, g) == Lcm(f.valence, g.valence) \div Abs(g.valence)

\* Formula.__and__: [err, value]
FormulaAnd(f, g) ==
    IF AndRaises(f, g)
    THEN [err |-> "ValueError", value |-> Formula(<<>>, 0)]
    ELSE [err |-> "none",
          value |-> FormulaAdd(FormulaMul(f, AndT1(f, g)), FormulaMul(g, AndT2(f, g)))]

\* ------------------------------------------------------------- Substance
\* The substances of demo3.py.  The physical numbers are inputs of the
\* program (any positive value is legal); small ones keep the rationals small.
Subs == {"ice", "water", "steam", "Fe", "S", "FeS"}

h2o_form == Formula([e \in {"h", "o"} |-> IF e = "h" THEN 2 ELSE 1], 0)
fe_form == Formula([e \in {"fe"} |-> 1], 0)
s_form == Formula([e \in {"s"} |-> 1], 0)
fes_form == Formula([e \in {"fe", "s"} |-> 1], 0)
\* further formulas handed to the balancer: a sulfide with unequal counts, and ions
fe2s3_form == Formula([e \in {"fe", "s"} |-> IF e = "fe" THEN 2 ELSE 3], 0)
fe2p_form == Formula([e \in {"fe"} |-> 1], 2)
fe3p_form == Formula([e \in {"fe"} |-> 1], 3)
s2m_form == Formula([e \in {"s"} |-> 1], -2)

Substance(formula, density, energy, specific_heat, heat_transfer_coefficient) ==
    [formula |-> formula, density |-> density, energy |-> energy,
     specific_heat |-> specific_heat,
     heat_transfer_coefficient |-> heat_transfer_coefficient,
     charge |-> formula.valence,
     relative_mass |-> FormulaRelativeMass(formula)]

SubstanceOf(s) ==
    CASE s = "ice"   -> Substance(h2o_form, 18, -6, 4, 4)
      [] s = "water" -> Substance(h2o_form, 18, -2, 4, 1)
      [] s = "steam" -> Substance(h2o_form, 9, 8, 2, 1)
      [] s = "Fe"    -> Substance(fe_form, 56, 0, 4, 4)
      [] s = "S"     -> Substance(s_form, 32, 0, 4, 1)
      [] s = "FeS"   -> Substance(fes_form, 88, 0, 4, 4)
      [] s = "Fe2S3" -> Substance(fe2s3_form, 104, 0, 4, 4)
      [] s = "Fe2p"  -> Substance(fe2p_form, 56, 0, 4, 1)
      [] s = "Fe3p"  -> Substance(fe3p_form, 56, 0, 4, 1)
      [] s = "S2m"   -> Substance(s2m_form, 32, 0, 4, 1)

\* ------------------------------------------------------------- Matter
HEAT_TRANSFER_CONSTANT == 1000

Matter(substance, amount, temperature, surface_area_multiplier) ==
    [substance |-> substance, amount |-> amount, temperature |-> temperature,
     surface_area_multiplier |-> surface_area_multiplier]

InternalEnergy(m) ==
    RMul(RMul(m.amount, m.temperature), R(SubstanceOf(m.substance).specific_heat))

ChemicalEnergy(m) == RMul(m.amount, R(SubstanceOf(m.substance).energy))

Energy(m) == RAdd(InternalEnergy(m), ChemicalEnergy(m))

Mass(m) == RDiv(RMul(m.amount, R(SubstanceOf(m.substance).relative_mass)), R(1000))

Volume(m) == RDiv(Mass(m), R(SubstanceOf(m.substance).density))

\* Each method returns [err, self]: the exception raised ("none" if none) and
\* the Matter as the call leaves it.
\* the two Matters compared by the formula of their substances
SubstanceMismatchByFormula(self, other) ==
    SubstanceOf(other.substance).formula # SubstanceOf(self.substance).formula

\* other.substance != self.substance: Substance is a dataclass with eq=False,
\* so this compares the objects, which the model names
SubstanceMismatch(self, other) == other.substance # self.substance

Merge(self, other) ==
    IF SubstanceMismatch(self, other)
    THEN [err |-> "ValueError", self |-> self]
    ELSE LET amount == RAdd(self.amount, other.amount)
             den == RMul(amount, R(SubstanceOf(self.substance).specific_heat))
         IN  IF self.temperature # other.temperature
             THEN IF den = RZero
                  THEN [err |-> "ZeroDivisionError", self |-> self]
                  ELSE [err |-> "none",
                        self |-> [self EXCEPT
                            !.temperature =
                                RDiv(RAdd(InternalEnergy(self), InternalEnergy(other)), den),
                            !.amount = amount]]
             ELSE [err |-> "none", self |-> [self EXCEPT !.amount = amount]]

RemoveNoClamp(self, other) ==
    [err |-> "none", self |-> [self EXCEPT !.amount = RSub(self.amount, other.amount)]]

\* remove as it would be were the temperature left as it is
RemoveKeepTemperature(self, other) ==
    IF SubstanceMismatch(self, other)
    THEN [err |-> "ValueError", self |-> self]
    ELSE LET amount == RSub(self.amount, other.amount)
         IN  IF RLe(amount, RZero)
             THEN [err |-> "none", self |-> [self EXCEPT !.amount = RZero]]
             ELSE [err |-> "none", self |-> [self EXCEPT !.amount = amount]]

Remove(self, other) ==
    IF SubstanceMismatch(self, other)
    THEN [err |-> "ValueError", self |-> self]
    ELSE LET amount == RSub(self.amount, other.amount)
             den == RMul(amount, R(SubstanceOf(self.substance).specific_heat))
         IN  IF RLe(amount, RZero)
             THEN [err |-> "none", self |-> [self EXCEPT !.amount = RZero]]
             ELSE IF self.temperature # other.temperature
                  THEN [err |-> "none",
                        self |-> [self EXCEPT
                            !.temperature =
                                RDiv(RSub(InternalEnergy(self), InternalEnergy(other)), den),
                            !.amount = amount]]
                  ELSE [err |-> "none", self |-> [self EXCEPT !.amount = amount]]

AddHeat(self, heat) ==
    LET den == RMul(self.amount, R(SubstanceOf(self.substance).specific_heat))
    IN  IF heat = RZero
        THEN [err |-> "none", self |-> self]
        ELSE IF den = RZero
             THEN [err |-> "ZeroDivisionError", self |-> self]
             ELSE [err |-> "none",
                   self |-> [self EXCEPT !.temperature = RAdd(@, RDiv(heat, den))]]

\* x ** 0.5 on the perfect squares the substance table produces
Sqrt(n) == CHOOSE k \in 0..n : k * k = n

\* the flow as it would be were the contact area taken from self alone
MatterTransferHeatOwnArea(t, self, other) ==
    LET delta_temperature == RSub(self.temperature, other.temperature)
        area == RMul(self.surface_area_multiplier, Volume(self))
        coefficient == Sqrt(SubstanceOf(self.substance).heat_transfer_coefficient
                            * SubstanceOf(other.substance).heat_transfer_coefficient)
    IN  RMul(RMul(RMul(RMul(R(coefficient), area), delta_temperature), t),
             R(HEAT_TRANSFER_CONSTANT))

MatterTransferHeat(t, self, other) ==
    LET delta_temperature == RSub(self.temperature, other.temperature)
        area == RMin(RMul(self.surface_area_multiplier, Volume(self)),
                     RMul(other.surface_area_multiplier, Volume(other)))
        coefficient == Sqrt(SubstanceOf(self.substance).heat_transfer_coefficient
                            * SubstanceOf(other.substance).heat_transfer_coefficient)
    IN  RMul(RMul(RMul(RMul(R(coefficient), area), delta_temperature), t),
             R(HEAT_TRANSFER_CONSTANT))

TransferHeatEnvironment(t, self, environment_temperature) ==
    LET delta_temperature == RSub(self.temperature, environment_temperature)
        area == RMul(self.surface_area_multiplier, Volume(self))
        coefficient == SubstanceOf(self.substance).heat_transfer_coefficient
    IN  RMul(RMul(RMul(RMul(R(coefficient), area), delta_temperature), t),
             R(HEAT_TRANSFER_CONSTANT))


\* ------------------------------------------------------------- Reaction
\* left and right keep the dict's insertion order: sequences of <<substance, count>>
Reaction(left, right, speed_multiplier) ==
    [left |-> left, right |-> right, speed_multiplier |-> speed_multiplier]

\* the policy speed_multiplier_factory(base, min_temperature, max_temperature) builds
SpeedFactory(base, min_temperature, max_temperature) ==
    [kind |-> "factory", base |-> base,
     min_temperature |-> min_temperature, max_temperature |-> max_temperature]

\* a caller-supplied policy: lambda tick, reaction, matters: multiplier
SpeedConst(multiplier) == [kind |-> "const", multiplier |-> multiplier]

DEFAULT_MIN_TEMPERATURE == -200
DEFAULT_MAX_TEMPERATURE == 1000000

\* the surface factors left out
SurfaceProductOne(left, m, i) == R(1)

RECURSIVE SurfaceProduct(_, _, _)
SurfaceProduct(left, m, i) ==
    IF i > Len(left) THEN R(1)
    ELSE RMul(m[left[i][1]].surface_area_multiplier, SurfaceProduct(left, m, i + 1))

RECURSIVE LimitByAmount(_, _, _, _)
LimitByAmount(multiplier, left, m, i) ==
    IF i > Len(left) THEN multiplier
    ELSE LimitByAmount(RMin(multiplier, RDiv(m[left[i][1]].amount, left[i][2])),
                       left, m, i + 1)

FactorySpeedNoLimit(sp, t, reaction, m) ==
    IF \E i \in 1..Len(reaction.left) :
           \/ reaction.left[i][1] \notin DOMAIN m
           \/ RLt(m[reaction.left[i][1]].temperature, R(sp.min_temperature))
           \/ RLt(R(sp.max_temperature), m[reaction.left[i][1]].temperature)
    THEN RZero
    ELSE RMul(RMul(R(sp.base), t), SurfaceProduct(reaction.left, m, 1))

FactorySpeed(sp, t, reaction, m) ==
    IF \E i \in 1..Len(reaction.left) :
           \/ reaction.left[i][1] \notin DOMAIN m
           \/ RLt(m[reaction.left[i][1]].temperature, R(sp.min_temperature))
           \/ RLt(R(sp.max_temperature), m[reaction.left[i][1]].temperature)
    THEN RZero
    ELSE LimitByAmount(RMul(RMul(R(sp.base), t), SurfaceProduct(reaction.left, m, 1)),
                       reaction.left, m, 1)

SpeedMultiplier(t, reaction, m) ==
    IF reaction.speed_multiplier.kind = "const"
    THEN reaction.speed_multiplier.multiplier
    ELSE FactorySpeed(reaction.speed_multiplier, t, reaction, m)

\* ------------------------------------------------------------- ChemicalSystem
AMOUNT_CLEAR == 1

\* environment_temperature=None
None == <<>>

MatterChange(add_matter, remove_matter, add_heat) ==
    [add_matter |-> add_matter, remove_matter |-> remove_matter, add_heat |-> add_heat]

EmptyChange == MatterChange(<<>>, <<>>, <<>>)

Extend(c, other) ==
    MatterChange(c.add_matter \o other.add_matter,
                 c.remove_matter \o other.remove_matter,
                 c.add_heat \o other.add_heat)

RECURSIVE RSumSeq(_, _)
RSumSeq(q, i) == IF i > Len(q) THEN RZero ELSE RAdd(q[i], RSumSeq(q, i + 1))

\* reaction_process lines 39-49: the Matter taken from each reactant
ReactantMatters(reaction, multiplier, m) ==
    [i \in 1..Len(reaction.left) |->
        Matter(reaction.left[i][1], RMul(reaction.left[i][2], multiplier),
               m[reaction.left[i][1]].temperature,
               m[reaction.left[i][1]].surface_area_multiplier)]

\* reaction_process lines 52-56: the Matter made of each product
ProductMatters(reaction, multiplier, reaction_temperature) ==
    [i \in 1..Len(reaction.right) |->
        Matter(reaction.right[i][1], RMul(reaction.right[i][2], multiplier),
               reaction_temperature, R(1))]

\* the shares as they would be were they taken in proportion to the amounts
\* removed
HeatSharesConsumed(reaction, m, removed, total_energy, matter_amount) ==
    [i \in 1..Len(reaction.left) |->
        <<reaction.left[i][1],
          RDiv(RMul(total_energy, removed[i].amount),
               RSumSeq([k \in 1..Len(removed) |-> removed[k].amount], 1))>>]

\* reaction_process lines 61-67: the add_heat entry of each reactant
HeatShares(reaction, m, removed, total_energy, matter_amount) ==
    [i \in 1..Len(reaction.left) |->
        <<reaction.left[i][1],
          RDiv(RMul(total_energy, m[reaction.left[i][1]].amount), matter_amount)>>]

\* reaction_process: [err, change]
ReactionProcess(reaction, t, m) ==
    LET multiplier == SpeedMultiplier(t, reaction, m)
    IN
    IF multiplier = RZero THEN [err |-> "none", change |-> EmptyChange]
    ELSE IF \E i \in 1..Len(reaction.left) : reaction.left[i][1] \notin DOMAIN m
    THEN [err |-> "KeyError", change |-> EmptyChange]
    ELSE
    LET removed == ReactantMatters(reaction, multiplier, m)
        amount_sum == RSumSeq([i \in 1..Len(removed) |-> removed[i].amount], 1)
        temperature_sum ==
            RSumSeq([i \in 1..Len(removed) |->
                        RMul(removed[i].temperature, removed[i].amount)], 1)
    IN
    IF amount_sum = RZero THEN [err |-> "ZeroDivisionError", change |-> EmptyChange]
    ELSE
    LET reaction_temperature == RDiv(temperature_sum, amount_sum)
        added == ProductMatters(reaction, multiplier, reaction_temperature)
        total_energy ==
            RSub(RSumSeq([i \in 1..Len(removed) |-> Energy(removed[i])], 1),
                 RSumSeq([i \in 1..Len(added) |-> Energy(added[i])], 1))
        matter_amount ==
            RSumSeq([i \in 1..Len(reaction.left) |-> m[reaction.left[i][1]].amount], 1)
    IN
    IF matter_amount = RZero THEN [err |-> "ZeroDivisionError", change |-> EmptyChange]
    ELSE [err |-> "none",
          change |-> MatterChange(added, removed,
              HeatShares(reaction, m, removed, total_energy, matter_amount))]

Put(m, s, v) == [x \in DOMAIN m \cup {s} |-> IF x = s THEN v ELSE m[x]]
Pop(m, s) == [x \in DOMAIN m \ {s} |-> m[x]]

\* apply_changes works on [m, err, removed]: the matters so far, the exception
\* raised, and the substances a remove entry has been applied to
RECURSIVE ApplyAdd(_, _, _)
ApplyAdd(st, q, i) ==
    IF i > Len(q) \/ st.err # "none" THEN st
    ELSE LET substance == q[i].substance
         IN  IF substance \notin DOMAIN st.m
             THEN ApplyAdd([st EXCEPT !.m = Put(st.m, substance, q[i])], q, i + 1)
             ELSE LET r == Merge(st.m[substance], q[i])
                  IN  ApplyAdd([st EXCEPT !.m = Put(st.m, substance, r.self),
                                          !.err = r.err], q, i + 1)

RECURSIVE ApplyHeat(_, _, _)
ApplyHeat(st, q, i) ==
    IF i > Len(q) \/ st.err # "none" THEN st
    ELSE LET substance == q[i][1]
         IN  IF substance \notin DOMAIN st.m
             THEN [st EXCEPT !.err = "KeyError"]
             ELSE LET r == AddHeat(st.m[substance], q[i][2])
                  IN  ApplyHeat([st EXCEPT !.m = Put(st.m, substance, r.self),
                                           !.err = r.err], q, i + 1)

ClearedStrict(m) == RLt(m.amount, R(AMOUNT_CLEAR))

Cleared(m) == RLe(m.amount, R(AMOUNT_CLEAR))

\* the remove loop as a plain subtraction, with neither clamp nor clearing
RECURSIVE ApplyRemoveSubtract(_, _, _)
ApplyRemoveSubtract(st, q, i) ==
    IF i > Len(q) \/ st.err # "none" THEN st
    ELSE LET substance == q[i].substance
         IN  IF substance \notin DOMAIN st.m
             THEN [st EXCEPT !.err = "KeyError"]
             ELSE ApplyRemoveSubtract(
                      [st EXCEPT !.removed = @ \cup {substance},
                                 !.m = Put(st.m, substance,
                                           RemoveNoClamp(st.m[substance], q[i]).self)],
                      q, i + 1)

RECURSIVE ApplyRemove(_, _, _)
ApplyRemove(st, q, i) ==
    IF i > Len(q) \/ st.err # "none" THEN st
    ELSE LET substance == q[i].substance
         IN  IF substance \notin DOMAIN st.m
             THEN [st EXCEPT !.err = "KeyError"]
             ELSE LET r == Remove(st.m[substance], q[i])
                      st1 == [st EXCEPT !.removed = @ \cup {substance}]
                  IN  IF Cleared(r.self)
                      THEN ApplyRemove([st1 EXCEPT !.m = Pop(st.m, substance)], q, i + 1)
                      ELSE ApplyRemove([st1 EXCEPT !.m = Put(st.m, substance, r.self)],
                                       q, i + 1)

\* apply_changes followed by a sweep that clears every depleted Matter
ApplyChangesSweep(m, change) ==
    LET st == ApplyRemove(
                  ApplyHeat(
                      ApplyAdd([m |-> m, err |-> "none", removed |-> {}],
                               change.add_matter, 1),
                      change.add_heat, 1),
                  change.remove_matter, 1)
    IN  [st EXCEPT !.m = [s \in {x \in DOMAIN st.m : ~Cleared(st.m[x])} |-> st.m[s]]]

ApplyChanges(m, change) ==
    ApplyRemove(
        ApplyHeat(
            ApplyAdd([m |-> m, err |-> "none", removed |-> {}], change.add_matter, 1),
            change.add_heat, 1),
        change.remove_matter, 1)

RECURSIVE ComputeChanges(_, _, _, _, _)
\* the change set as it would be were each reaction's entries applied before
\* the next reaction is processed
ComputeNextApplied(rs, t, m, i, acc, p) ==
    IF p.err # "none" THEN [err |-> p.err, change |-> acc]
    ELSE ComputeChanges(rs, t, ApplyChanges(m, p.change).m, i + 1, Extend(acc, p.change))

\* run line 110: extend the change set by what reaction i gives, p
ComputeNext(rs, t, m, i, acc, p) ==
    IF p.err # "none" THEN [err |-> p.err, change |-> acc]
    ELSE ComputeChanges(rs, t, m, i + 1, Extend(acc, p.change))

\* run lines 107-110: [err, change] over the whole reaction list, every
\* reaction reading the same matters
ComputeChanges(rs, t, m, i, acc) ==
    IF i > Len(rs) THEN [err |-> "none", change |-> acc]
    ELSE ComputeNext(rs, t, m, i, acc, ReactionProcess(rs[i], t, m))

RECURSIVE RSumSet(_, _)
RSumSet(S, f) ==
    IF S = {} THEN RZero
    ELSE LET x == CHOOSE y \in S : TRUE IN RAdd(f[x], RSumSet(S \ {x}, f))

\* transfer_heat lines 87-97: the net flow out of each substance, all read
\* from the temperatures held before any flow is applied
HeatFlows(m, t, environment_temperature) ==
    [s \in DOMAIN m |->
        RAdd(RSumSet(DOMAIN m \ {s},
                     [o \in DOMAIN m \ {s} |-> MatterTransferHeat(t, m[s], m[o])]),
             IF environment_temperature = None THEN RZero
             ELSE TransferHeatEnvironment(t, m[s], environment_temperature))]

\* transfer_heat as it would be were each Matter adjusted as soon as its own
\* net flow is known, the Matters after it reading the adjusted temperature
RECURSIVE TransferInTurn(_, _, _, _)
TransferInTurn(st, t, environment_temperature, todo) ==
    IF todo = {} \/ st.err # "none" THEN st
    ELSE LET s == CHOOSE x \in todo : TRUE
             r == AddHeat(st.m[s], RNeg(HeatFlows(st.m, t, environment_temperature)[s]))
         IN  TransferInTurn([m |-> Put(st.m, s, r.self),
                             err |-> IF r.err # "none" THEN "ZeroDivisionError" ELSE "none"],
                            t, environment_temperature, todo \ {s})

TransferHeatInTurn(m, t, environment_temperature) ==
    TransferInTurn([m |-> m, err |-> "none"], t, environment_temperature, DOMAIN m)

\* transfer_heat: [m, err]
TransferHeat(m, t, environment_temperature) ==
    LET heat == HeatFlows(m, t, environment_temperature)
        res == [s \in DOMAIN m |-> AddHeat(m[s], RNeg(heat[s]))]
    IN  [m |-> [s \in DOMAIN m |-> res[s].self],
         err |-> IF \E s \in DOMAIN m : res[s].err # "none"
                 THEN "ZeroDivisionError" ELSE "none"]

\* run lines 112-114 and the return: what the call leaves, given the change set
\* c it computed, the outcome a of apply_changes and the outcome h of transfer_heat
RunResult(m, c, a, h) ==
    IF c.err # "none"
    THEN [stage |-> "compute", err |-> c.err, change |-> c.change,
          applied |-> m, removed |-> {}, m |-> m]
    ELSE IF a.err # "none"
    THEN [stage |-> "apply", err |-> a.err, change |-> c.change,
          applied |-> a.m, removed |-> a.removed, m |-> a.m]
    ELSE [stage |-> "done", err |-> h.err, change |-> c.change,
          applied |-> a.m, removed |-> a.removed, m |-> h.m]

\* run line 114: transfer_heat on what apply_changes left
RunTransfer(m, t, environment_temperature, c, a) ==
    RunResult(m, c, a, TransferHeat(a.m, t, environment_temperature))

\* run line 112: apply_changes of the change set computed
RunApply(m, t, environment_temperature, c) ==
    RunTransfer(m, t, environment_temperature, c, ApplyChanges(m, c.change))

\* run: what one call does to matters, with the steps it went through
RunOutcome(m, rs, t, environment_temperature) ==
    RunApply(m, t, environment_temperature, ComputeChanges(rs, t, m, 1, EmptyChange))


\* ------------------------------------------------------------- the engine's inputs
\* demo3.py's reactions, with the rate bases and temperature windows varied,
\* a reaction with an empty left side, and caller-supplied constant policies
FeSReaction(sp) ==
    Reaction(<< <<"Fe", R(1)>>, <<"S", R(1)>> >>, << <<"FeS", R(1)>> >>, sp)

ReactionSet ==
    {FeSReaction(SpeedFactory(1, DEFAULT_MIN_TEMPERATURE, DEFAULT_MAX_TEMPERATURE)),
     FeSReaction(SpeedConst(R(9))),
     Reaction(<< <<"ice", R(1)>> >>, << <<"water", R(1)>> >>,
              SpeedFactory(1, 0, DEFAULT_MAX_TEMPERATURE)),
     Reaction(<< <<"water", R(1)>> >>, << <<"ice", R(1)>> >>,
              SpeedFactory(5, DEFAULT_MIN_TEMPERATURE, DEFAULT_MAX_TEMPERATURE)),
     Reaction(<< <<"water", R(2)>> >>, << <<"steam", R(2)>> >>,
              SpeedFactory(5, DEFAULT_MIN_TEMPERATURE, DEFAULT_MAX_TEMPERATURE)),
     Reaction(<< <<"steam", R(1)>> >>, << <<"water", R(1)>> >>,
              SpeedFactory(1, DEFAULT_MIN_TEMPERATURE, 100)),
     Reaction(<<>>, << <<"water", R(1)>> >>,
              SpeedFactory(1, DEFAULT_MIN_TEMPERATURE, DEFAULT_MAX_TEMPERATURE))}

ReactionLists == UNION {[1..n -> ReactionSet] : n \in 0..MaxReactions}

TickLengths == {R(1), <<1, 2>>}

Environments == {None, R(20)}

\* the dicts ChemicalSystem is constructed with: amounts >= 0
Seed(S, amount, temperature, sam) ==
    [s \in S |-> Matter(s, R(amount[s]), R(temperature[s]), R(sam[s]))]

InitialMatters ==
    {Seed({"ice"}, [s \in Subs |-> 7], [s \in Subs |-> -5], [s \in Subs |-> 1]),
     Seed({"water"}, [s \in Subs |-> 7], [s \in Subs |-> 20], [s \in Subs |-> 1]),
     Seed({"water", "ice"}, [s \in Subs |-> IF s = "ice" THEN 0 ELSE 2],
          [s \in Subs |-> IF s = "ice" THEN -5 ELSE 0], [s \in Subs |-> 1]),
     Seed({"water", "steam"}, [s \in Subs |-> IF s = "water" THEN 12 ELSE 2],
          [s \in Subs |-> IF s = "water" THEN 20 ELSE 120],
          [s \in Subs |-> IF s = "water" THEN 2 ELSE 1]),
     Seed({"Fe", "S"}, [s \in Subs |-> IF s = "Fe" THEN 7 ELSE 2],
          [s \in Subs |-> IF s = "Fe" THEN 120 ELSE 20], [s \in Subs |-> 1]),
     Seed({"Fe", "S", "FeS"}, [s \in Subs |-> IF s = "S" THEN 0 ELSE 3],
          [s \in Subs |-> 20], [s \in Subs |-> 1]),
     Seed({"Fe", "water"}, [s \in Subs |-> 12], [s \in Subs |-> IF s = "Fe" THEN 60 ELSE 20],
          [s \in Subs |-> IF s = "Fe" THEN 0 ELSE 1]),
     Seed({}, [s \in Subs |-> 0], [s \in Subs |-> 20], [s \in Subs |-> 1])}

Idle == [op |-> "idle"]

Representable(m) ==
    \A s \in DOMAIN m :
        /\ m[s].amount[2] <= MaxDenominator /\ m[s].temperature[2] <= MaxDenominator
        /\ RLe(m[s].amount, R(MaxQuantity))
        /\ RLe(RAbs(m[s].temperature), R(MaxTemperature))

\* ------------------------------------------------------------- the engine
Init ==
    /\ matters \in InitialMatters
    /\ reactions \in ReactionLists
    /\ tick \in TickLengths
    /\ ticks = 0
    /\ last = [stage |-> "init", err |-> "none", env |-> None, pre |-> matters,
               change |-> EmptyChange, applied |-> matters, removed |-> {}]
    /\ fcase = Idle
    /\ bcase = Idle
    /\ mcase = Idle

\* the call returns (or raises): matters is what it left, last what it did
Returned(o, environment_temperature) ==
    /\ matters' = o.m
    /\ last' = [stage |-> o.stage, err |-> o.err, env |-> environment_temperature,
                pre |-> matters, change |-> o.change, applied |-> o.applied,
                removed |-> o.removed]

\* ChemicalSystem.run(reactions, tick, environment_temperature)
Run(environment_temperature) ==
    /\ ticks < MaxTicks
    /\ Representable(matters)
    /\ Returned(RunOutcome(matters, reactions, tick, environment_temperature),
                environment_temperature)
    /\ ticks' = ticks + 1
    /\ UNCHANGED <<reactions, tick, fcase, bcase, mcase>>

Next == \E environment_temperature \in Environments : Run(environment_temperature)

Spec == Init /\ [][Next]_vars


\* ------------------------------------------------------------- Formula algebra
\* Two Formulas are constructed, then one operator is applied to them.
FormulaElements == {"fe", "s"}

Formulas ==
    {Formula(ec, v) :
        ec \in UNION {[S -> 1..MaxCount] : S \in SUBSET FormulaElements},
        v \in -MaxValence..MaxValence}

InitFormula ==
    /\ fcase \in {[op |-> "new", f1 |-> f, f2 |-> g, t |-> 1, err |-> "none", value |-> f] :
                    f \in Formulas, g \in Formulas}
    /\ matters = [s \in {} |-> 0]
    /\ reactions = <<>>
    /\ tick = R(1)
    /\ ticks = 0
    /\ last = Idle
    /\ bcase = Idle
    /\ mcase = Idle

\* f1 & f2
FAnd ==
    /\ fcase.op = "new"
    /\ LET r == FormulaAnd(fcase.f1, fcase.f2)
       IN  fcase' = [fcase EXCEPT !.op = "and", !.err = r.err, !.value = r.value]
    /\ UNCHANGED <<matters, reactions, tick, ticks, last, bcase, mcase>>

\* f1 + f2
FAdd ==
    /\ fcase.op = "new"
    /\ fcase' = [fcase EXCEPT !.op = "add", !.value = FormulaAdd(fcase.f1, fcase.f2)]
    /\ UNCHANGED <<matters, reactions, tick, ticks, last, bcase, mcase>>

\* f1 * t
FMul(t) ==
    /\ fcase.op = "new"
    /\ fcase' = [fcase EXCEPT !.op = "mul", !.t = t, !.value = FormulaMul(fcase.f1, t)]
    /\ UNCHANGED <<matters, reactions, tick, ticks, last, bcase, mcase>>

NextFormula == FAnd \/ FAdd \/ (\E t \in 0..MaxScale : FMul(t))

SpecFormula == InitFormula /\ [][NextFormula]_vars

Count(f, e) == IF e \in DOMAIN f.element_count THEN f.element_count[e] ELSE 0

\* the least positive common multiple of two positive integers, by its definition
LeastCommonMultiple(a, b) ==
    CHOOSE l \in 1..(a * b) :
        /\ l % a = 0 /\ l % b = 0
        /\ \A k \in 1..(l - 1) : ~(k % a = 0 /\ k % b = 0)

OppositeSigns(f, g) ==
    (f.valence > 0 /\ g.valence < 0) \/ (f.valence < 0 /\ g.valence > 0)

\* C5: for Formulas f1, f2 with nonzero valences of opposite sign, f1 & f2 is
\* f1 scaled by L/|v1| combined with f2 scaled by L/|v2|, L = lcm(|v1|, |v2|):
\* every element's count is count1*L/|v1| + count2*L/|v2|, and the valence is 0.
C5_BalanceCombine ==
    (fcase.op = "and" /\ OppositeSigns(fcase.f1, fcase.f2)) =>
        LET v1 == Abs(fcase.f1.valence)
            v2 == Abs(fcase.f2.valence)
            L == LeastCommonMultiple(v1, v2)
        IN  /\ fcase.err = "none"
            /\ fcase.value.valence = 0
            /\ DOMAIN fcase.value.element_count =
                   DOMAIN fcase.f1.element_count \cup DOMAIN fcase.f2.element_count
            /\ \A e \in FormulaElements :
                   Count(fcase.value, e) =
                       Count(fcase.f1, e) * (L \div v1) + Count(fcase.f2, e) * (L \div v2)

\* a +3 cation and a -2 anion sharing an element have been combined 2 : 3
C5_Witness ==
    /\ fcase.op = "and"
    /\ fcase.f1.valence = 3 /\ fcase.f2.valence = -2
    /\ Count(fcase.f1, "fe") = 1 /\ Count(fcase.f2, "fe") = 1 /\ Count(fcase.f2, "s") = 2
    /\ fcase.err = "none"
    /\ Count(fcase.value, "fe") = 5 /\ Count(fcase.value, "s") = 6

\* C6: f1 & f2 raises, returning no Formula, exactly when a valence is zero or
\* both valences have the same sign; every opposite-sign nonzero pair succeeds.
C6_BalanceCombineRaises ==
    fcase.op = "and" =>
        ((fcase.err # "none") <=>
            (\/ fcase.f1.valence = 0
             \/ fcase.f2.valence = 0
             \/ (fcase.f1.valence > 0 /\ fcase.f2.valence > 0)
             \/ (fcase.f1.valence < 0 /\ fcase.f2.valence < 0)))

\* & has raised on two anions
C6_Witness ==
    /\ fcase.op = "and"
    /\ fcase.err = "ValueError"
    /\ fcase.f1.valence = -1 /\ fcase.f2.valence = -2


\* ------------------------------------------------------------- Matter methods
\* Two Matters are constructed, then one method of the first is called.
OperandMatters ==
    {Matter(s, R(a), R(temperature), R(1)) :
        s \in {"ice", "water"}, a \in 0..MaxAmount, temperature \in {0, 20}}

Heats == {R(0), R(8), R(-8)}

InitMatter ==
    /\ mcase \in {[op |-> "new", self |-> m, other |-> o, heat |-> h,
                   err |-> "none", result |-> m] :
                    m \in OperandMatters, o \in OperandMatters, h \in Heats}
    /\ matters = [s \in {} |-> 0]
    /\ reactions = <<>>
    /\ tick = R(1)
    /\ ticks = 0
    /\ last = Idle
    /\ fcase = Idle
    /\ bcase = Idle

\* self.merge(other)
MMerge ==
    /\ mcase.op = "new"
    /\ LET r == Merge(mcase.self, mcase.other)
       IN  mcase' = [mcase EXCEPT !.op = "merge", !.err = r.err, !.result = r.self]
    /\ UNCHANGED <<matters, reactions, tick, ticks, last, fcase, bcase>>

\* self.remove(other)
MRemove ==
    /\ mcase.op = "new"
    /\ LET r == Remove(mcase.self, mcase.other)
       IN  mcase' = [mcase EXCEPT !.op = "remove", !.err = r.err, !.result = r.self]
    /\ UNCHANGED <<matters, reactions, tick, ticks, last, fcase, bcase>>

\* self.add_heat(heat)
MAddHeat ==
    /\ mcase.op = "new"
    /\ LET r == AddHeat(mcase.self, mcase.heat)
       IN  mcase' = [mcase EXCEPT !.op = "add_heat", !.err = r.err, !.result = r.self]
    /\ UNCHANGED <<matters, reactions, tick, ticks, last, fcase, bcase>>

\* self.remove(other) on the Matter self.merge(other) has just left
MMergeRemove ==
    /\ mcase.op = "merge"
    /\ mcase.err = "none"
    /\ LET r == Remove(mcase.result, mcase.other)
       IN  mcase' = [mcase EXCEPT !.op = "merge_remove", !.err = r.err, !.result = r.self]
    /\ UNCHANGED <<matters, reactions, tick, ticks, last, fcase, bcase>>

NextMatter == MMerge \/ MRemove \/ MAddHeat \/ MMergeRemove

SpecMatter == InitMatter /\ [][NextMatter]_vars

\* C4: a temperature average or shift over a total amount of zero (merge of two
\* zero-amount Matters at different temperatures, add_heat of nonzero heat on a
\* zero-amount Matter) returns normally instead of raising a division by zero.
C4_NoZeroDivision ==
    mcase.op \in {"merge", "add_heat"} => mcase.err # "ZeroDivisionError"

\* C12: merge(other) and remove(other) raise whenever other.substance is not the
\* same Substance object as self.substance, and then leave self.amount and
\* self.temperature unchanged.
C12_SubstanceMismatch ==
    (mcase.op \in {"merge", "remove"} /\ mcase.other.substance # mcase.self.substance) =>
        /\ mcase.err = "ValueError"
        /\ mcase.result.amount = mcase.self.amount
        /\ mcase.result.temperature = mcase.self.temperature

\* 2 of water at 20 removed from 2 of ice at 0: same formula, another Substance
C12_Witness ==
    /\ mcase.op = "remove"
    /\ mcase.self = Matter("ice", R(2), R(0), R(1))
    /\ mcase.other = Matter("water", R(2), R(20), R(1))
    /\ mcase.err = "ValueError"
    /\ mcase.result = mcase.self


\* ------------------------------------------------------------- BalanceReaction
\* a set as a sequence, in some fixed order (the set's iteration order)
RECURSIVE SetToSeq(_)
SetToSeq(S) ==
    IF S = {} THEN <<>>
    ELSE LET x == CHOOSE y \in S : TRUE IN <<x>> \o SetToSeq(S \ {x})

\* a matrix is a sequence of rows; MinorOf drops the first row and column j
MinorOf(M, j) ==
    [r \in 1..(Len(M) - 1) |->
        [c \in 1..(Len(M) - 1) |-> IF c < j THEN M[r + 1][c] ELSE M[r + 1][c + 1]]]

RECURSIVE Det(_)
RECURSIVE DetRow(_, _)
DetRow(M, j) ==
    IF j > Len(M) THEN 0
    ELSE (IF j % 2 = 1 THEN 1 ELSE -1) * M[1][j] * Det(MinorOf(M, j)) + DetRow(M, j + 1)
Det(M) == IF Len(M) = 0 THEN 1 ELSE DetRow(M, 1)

ReplaceColumn(M, j, b) ==
    [r \in 1..Len(M) |-> [c \in 1..Len(M) |-> IF c = j THEN b[r] ELSE M[r][c]]]

\* numpy.linalg.solve(a, b): [err, x]; LinAlgError unless a is a square,
\* non-singular matrix with at least one row
LinalgSolve(a, b) ==
    IF Len(a) = 0 \/ (\E r \in 1..Len(a) : Len(a[r]) # Len(a)) \/ Det(a) = 0
    THEN [err |-> "LinAlgError", x |-> <<>>]
    ELSE [err |-> "none",
          x |-> [j \in 1..Len(a) |-> RNorm(Det(ReplaceColumn(a, j, b)), Det(a))]]

ElementCountGet(s, e) ==
    IF e \in DOMAIN SubstanceOf(s).formula.element_count
    THEN SubstanceOf(s).formula.element_count[e] ELSE 0

AllElements(substances) ==
    UNION {DOMAIN SubstanceOf(substances[i]).formula.element_count :
              i \in 1..Len(substances)}

\* reaction.py lines 77-86: one row per element, participant 0 left out
ElementRows(substances) ==
    LET es == SetToSeq(AllElements(substances))
    IN  [r \in 1..Len(es) |->
            [i \in 1..(Len(substances) - 1) |-> ElementCountGet(substances[i + 1], es[r])]]

VecBPositive(substances) ==
    LET es == SetToSeq(AllElements(substances))
    IN  [r \in 1..Len(es) |-> ElementCountGet(substances[1], es[r])]

VecB(substances) ==
    LET es == SetToSeq(AllElements(substances))
    IN  [r \in 1..Len(es) |-> -ElementCountGet(substances[1], es[r])]

\* reaction.py lines 88-94: the charges of participants 1.., appended unless all 0
ChargeRow(substances) ==
    [i \in 1..(Len(substances) - 1) |-> SubstanceOf(substances[i + 1]).charge]

HasChargeRow(substances) ==
    \E i \in 1..(Len(substances) - 1) : ChargeRow(substances)[i] # 0

MatA(substances) ==
    IF HasChargeRow(substances)
    THEN Append(ElementRows(substances), ChargeRow(substances))
    ELSE ElementRows(substances)

BalanceVecB(substances) ==
    IF HasChargeRow(substances) THEN Append(VecB(substances), 0) ELSE VecB(substances)

\* reaction.py lines 99-105: the dict built by assigning solution entries in order
LastIndex(substances, solution, s, positive) ==
    CHOOSE i \in 1..Len(substances) :
        /\ substances[i] = s
        /\ IF positive THEN solution[i][1] > 0 ELSE solution[i][1] < 0
        /\ \A k \in (i + 1)..Len(substances) :
               ~(substances[k] = s
                 /\ IF positive THEN solution[k][1] > 0 ELSE solution[k][1] < 0)

BalanceLeft(substances, solution) ==
    [s \in {substances[i] : i \in {k \in 1..Len(substances) : solution[k][1] > 0}} |->
        solution[LastIndex(substances, solution, s, TRUE)]]

BalanceRight(substances, solution) ==
    [s \in {substances[i] : i \in {k \in 1..Len(substances) : solution[k][1] < 0}} |->
        RNeg(solution[LastIndex(substances, solution, s, FALSE)])]

\* Reaction.BalanceReaction(*substances): [err, left, right]
BalanceReaction(substances) ==
    IF Len(substances) = 0
    THEN [err |-> "Reaction cannot be empty", left |-> <<>>, right |-> <<>>]
    ELSE LET sol == LinalgSolve(MatA(substances), BalanceVecB(substances))
             solution == <<R(1)>> \o sol.x
         IN  IF sol.err # "none"
             THEN [err |-> "The reaction cannot be balanced.",
                   left |-> <<>>, right |-> <<>>]
             ELSE [err |-> "none",
                   left |-> BalanceLeft(substances, solution),
                   right |-> BalanceRight(substances, solution)]

BalancePool == {"Fe", "S", "FeS", "Fe2S3", "Fe2p", "Fe3p", "S2m"}

ParticipantLists == UNION {[1..n -> BalancePool] : n \in 0..MaxParticipants}

InitBalance ==
    /\ bcase \in {[op |-> "new", substances |-> ps, err |-> "none",
                   left |-> <<>>, right |-> <<>>] : ps \in ParticipantLists}
    /\ matters = [s \in {} |-> 0]
    /\ reactions = <<>>
    /\ tick = R(1)
    /\ ticks = 0
    /\ last = Idle
    /\ fcase = Idle
    /\ mcase = Idle

Balance ==
    /\ bcase.op = "new"
    /\ LET r == BalanceReaction(bcase.substances)
       IN  bcase' = [bcase EXCEPT !.op = "balanced", !.err = r.err,
                                  !.left = r.left, !.right = r.right]
    /\ UNCHANGED <<matters, reactions, tick, ticks, last, fcase, mcase>>

NextBalance == Balance

SpecBalance == InitBalance /\ [][NextBalance]_vars


\* sum over one side of a Reaction of coefficient * count of element e
SideCount(side, e) ==
    RSumSet(DOMAIN side, [s \in DOMAIN side |-> RMul(side[s], R(ElementCountGet(s, e)))])

PairwiseDistinct(substances) ==
    \A i, j \in 1..Len(substances) : i # j => substances[i] # substances[j]

ConservationRows(substances) ==
    Append(ElementRows(substances), ChargeRow(substances))

ConservationRhs(substances) ==
    Append(VecB(substances), -SubstanceOf(substances[1]).charge)

SubMatrix(M, rs, cs) ==
    [r \in 1..Len(rs) |-> [c \in 1..Len(cs) |-> M[rs[r]][cs[c]]]]

\* the rank of a matrix with ncols columns: the size of a largest nonzero minor
Rank(M, ncols) ==
    LET sizes == {k \in 0..Len(M) :
                     k <= ncols /\
                     \E rs \in SUBSET (1..Len(M)) : \E cs \in SUBSET (1..ncols) :
                         /\ Cardinality(rs) = k /\ Cardinality(cs) = k
                         /\ Det(SubMatrix(M, SetToSeq(rs), SetToSeq(cs))) # 0}
    IN  CHOOSE k \in sizes : \A j \in sizes : j <= k

\* A x = b has a solution iff appending b to A does not raise the rank
Solvable(A, b, ncols) ==
    Rank(A, ncols) = Rank([r \in 1..Len(A) |-> Append(A[r], b[r])], ncols + 1)

\* C8: BalanceReaction with zero substances raises the empty-reaction error, and
\* with a list whose element and charge conservation equations admit no
\* solution raises the cannot-be-balanced error.
C8_BalancerFails ==
    bcase.op = "balanced" =>
        /\ Len(bcase.substances) = 0 => bcase.err = "Reaction cannot be empty"
        /\ (/\ Len(bcase.substances) > 0
            /\ ~Solvable(ConservationRows(bcase.substances),
                         ConservationRhs(bcase.substances),
                         Len(bcase.substances) - 1))
               => bcase.err = "The reaction cannot be balanced."


\* ------------------------------------------------------------- the engine's properties
TotalMass(m) == RSumSet(DOMAIN m, [s \in DOMAIN m |-> Mass(m[s])])

RECURSIVE SideMass(_, _)
SideMass(side, i) ==
    IF i > Len(side) THEN RZero
    ELSE RAdd(RMul(side[i][2], R(SubstanceOf(side[i][1]).relative_mass)),
              SideMass(side, i + 1))

MassConserving(reaction) == SideMass(reaction.left, 1) = SideMass(reaction.right, 1)

\* the mass the clearing step may discard: at most AMOUNT_CLEAR of each
\* substance it deleted
ClearedMassBound ==
    RSumSet(last.removed \ DOMAIN last.applied,
            [s \in last.removed \ DOMAIN last.applied |->
                RDiv(R(AMOUNT_CLEAR * SubstanceOf(s).relative_mass), R(1000))])

RunCompleted == last.stage = "done" /\ last.err = "none"

WellFormed(reaction) ==
    /\ Len(reaction.left) > 0
    /\ \A i \in 1..Len(reaction.left) : RLt(RZero, reaction.left[i][2])
    /\ \A i \in 1..Len(reaction.right) : RLt(RZero, reaction.right[i][2])
    /\ reaction.speed_multiplier.kind = "factory"

\* C2: with a list of well-formed reactions (non-empty left side, positive
\* coefficients, the default rate policy), also one in which reactions share a
\* reactant or a product, run() completes without raising.
C2_NoRaise ==
    (last.stage # "init" /\ \A i \in 1..Len(reactions) : WellFormed(reactions[i])) =>
        last.err = "none"

\* C3: from amounts >= 0, after any sequence of run() calls, whatever multiplier
\* >= 0 the rate functions return, every Matter held in matters has amount >= 0.
C3_AmountsNonNegative ==
    \A s \in DOMAIN matters : RLe(RZero, matters[s].amount)

\* a run has completed in which a remove entry asked for more than was present,
\* and Matter is still held
C3_Witness ==
    /\ RunCompleted
    /\ \E i \in 1..Len(last.change.remove_matter) :
           RLt(last.pre[last.change.remove_matter[i].substance].amount,
               last.change.remove_matter[i].amount)
    /\ DOMAIN matters # {}

AllMultipliersZero ==
    \A i \in 1..Len(reactions) : SpeedMultiplier(tick, reactions[i], last.pre) = RZero

\* C10: if every reaction's multiplier is 0, run() produces an empty change set
\* and leaves the substances held, every amount and every
\* surface_area_multiplier unchanged; temperatures change only by diffusion.
C10_ZeroRateTick ==
    (last.stage # "init" /\ AllMultipliersZero) =>
        /\ RunCompleted
        /\ last.change = EmptyChange
        /\ last.applied = last.pre
        /\ DOMAIN matters = DOMAIN last.pre
        /\ \A s \in DOMAIN matters :
               /\ matters[s].amount = last.pre[s].amount
               /\ matters[s].surface_area_multiplier = last.pre[s].surface_area_multiplier
        /\ matters = TransferHeat(last.pre, tick, last.env).m

\* a tick with reactions, none of which fires, has kept a Matter of amount 0
\* and changed a temperature by diffusion
C10_Witness ==
    /\ RunCompleted
    /\ Len(reactions) > 0
    /\ AllMultipliersZero
    /\ \E s \in DOMAIN matters : matters[s].amount = RZero
    /\ \E s \in DOMAIN matters : matters[s].temperature # last.pre[s].temperature


\* ------------------------------------------------------------- ticking for ever
\* run() called again and again with no end, as the demos' loops do:
\*     for i in range(n): beaker.run(R, T, envt)
\* ticks counts the calls round and round: 0, then 1..MaxTicks again and again.
RunForever(environment_temperature) ==
    /\ Representable(matters)
    /\ Returned(RunOutcome(matters, reactions, tick, environment_temperature),
                environment_temperature)
    /\ ticks' = (ticks % MaxTicks) + 1
    /\ UNCHANGED <<reactions, tick, fcase, bcase, mcase>>

NextForever == \E environment_temperature \in Environments : RunForever(environment_temperature)

\* the caller's loop does not stop: the count of calls keeps moving
Called == ticks' = (ticks % MaxTicks) + 1

SpecForever == Init /\ [][NextForever]_vars /\ WF_ticks(Called)

\* the last run took a remove entry for s out of matters
ConsumedLast(s) == s \in last.removed

\* the last run's change set holds an add entry for s
ProducedLast(s) ==
    \E i \in 1..Len(last.change.add_matter) : last.change.add_matter[i].substance = s

\* every substance a remove entry was applied to is either gone from matters
\* or holds more than AMOUNT_CLEAR when the apply step ends
DepletedCleared ==
    \A s \in last.removed :
        s \in DOMAIN last.applied => RLt(R(AMOUNT_CLEAR), last.applied[s].amount)

\* a substance enters matters only through an add entry of the tick's change set
NotRecreated ==
    \A s \in Subs :
        (s \notin DOMAIN matters /\ s \in DOMAIN matters') =>
            \E i \in 1..Len(last'.change.add_matter) :
                last'.change.add_matter[i].substance = s

\* what the last tick's remove entries asked of s, all together
RECURSIVE RequestedLast(_, _)
RequestedLast(s, i) ==
    IF i > Len(last.change.remove_matter) THEN RZero
    ELSE RAdd(IF last.change.remove_matter[i].substance = s
              THEN last.change.remove_matter[i].amount ELSE RZero,
              RequestedLast(s, i + 1))

\* a reactant that a tick consumed, did not produce and left in matters has
\* lost exactly what was asked of it, which is more than nothing
ConsumptionProgress ==
    last.stage = "done" =>
        \A s \in last.removed :
            (~ProducedLast(s) /\ s \in DOMAIN last.applied) =>
                /\ last.applied[s].amount =
                       RSub(last.pre[s].amount, RequestedLast(s, 1))
                /\ RLt(last.applied[s].amount, last.pre[s].amount)

\* a reactant the last tick consumed and did not produce does not stay for ever
\* consumed: it is deleted, or a tick comes that takes nothing more from it
\* (or that produces it, or that leaves the temperatures' representable range)
EventuallyDeleted ==
    \A s \in Subs :
        (s \in DOMAIN matters /\ ConsumedLast(s) /\ ~ProducedLast(s)) ~>
            \/ s \notin DOMAIN matters
            \/ ~ConsumedLast(s)
            \/ ProducedLast(s)
            \/ ~Representable(matters)

\* C9: after the apply step of a tick every substance that had a remove entry
\* applied and was left with amount <= AMOUNT_CLEAR is absent from matters; a
\* reactant consumed tick after tick is eventually deleted; and later ticks
\* do not re-create a substance unless a reaction's change set produces it.
C9_DepletionRemoval ==
    /\ []DepletedCleared
    /\ []ConsumptionProgress
    /\ [][NotRecreated]_vars
    /\ EventuallyDeleted

\* water 7 frozen at 5 per tick: 7, then 2, then the second tick's remove entry
\* leaves 0 and water is deleted
C9_Witness ==
    /\ reactions = << Reaction(<< <<"water", R(1)>> >>, << <<"ice", R(1)>> >>,
                               SpeedFactory(5, DEFAULT_MIN_TEMPERATURE,
                                            DEFAULT_MAX_TEMPERATURE)) >>
    /\ ticks = 2
    /\ last.err = "none"
    /\ "water" \in DOMAIN last.pre
    /\ last.pre["water"].amount = R(2)
    /\ "water" \in last.removed
    /\ "water" \notin DOMAIN matters

\* ------------------------------------------------------------- heat diffusion alone
\* Two Matters at different temperatures, no reaction, no environment:
\*     ChemicalSystem({a: Matter(a, n1, t1), b: Matter(b, n2, t2)}).run([], tick, None)
\* called again and again.
HeatSubstancePairs == {<<"Fe", "FeS">>, <<"water", "S">>, <<"Fe", "S">>, <<"water", "steam">>}

HeatAmounts == {2, 4}

HeatTemperaturePairs == {<<20, 60>>, <<60, 20>>, <<-5, 20>>}

HeatTickLengths == {<<1, 2>>, R(1), R(2)}

HeatPair(p, n1, n2, tp) ==
    (p[1] :> Matter(p[1], R(n1), R(tp[1]), R(1))) @@
    (p[2] :> Matter(p[2], R(n2), R(tp[2]), R(1)))

InitHeat ==
    /\ matters \in {HeatPair(p, n1, n2, tp) :
                        p \in HeatSubstancePairs, n1 \in HeatAmounts,
                        n2 \in HeatAmounts, tp \in HeatTemperaturePairs}
    /\ reactions = <<>>
    /\ tick \in HeatTickLengths
    /\ ticks = 0
    /\ last = [stage |-> "init", err |-> "none", env |-> None, pre |-> matters,
               change |-> EmptyChange, applied |-> matters, removed |-> {}]
    /\ fcase = Idle
    /\ bcase = Idle
    /\ mcase = Idle

NextHeat == RunForever(None)

SpecHeat == InitHeat /\ [][NextHeat]_vars

\* |T1 - T2| of a system of exactly two Matters
TemperatureGap(m) ==
    LET a == CHOOSE s \in DOMAIN m : TRUE
        b == CHOOSE s \in DOMAIN m : s # a
    IN  RAbs(RSub(m[a].temperature, m[b].temperature))

\* C11: two Matters with positive amounts, nonzero heat-transfer coefficients
\* and different temperatures, ticked with no environment and no firing
\* reaction: for every positive tick length |T1 - T2| strictly decreases at
\* every tick (the step on which the eventual convergence rests).
C11_HeatEquilibrium ==
    (/\ RunCompleted
     /\ last.env = None
     /\ last.change = EmptyChange
     /\ Cardinality(DOMAIN last.pre) = 2
     /\ \A s \in DOMAIN last.pre :
            /\ RLt(RZero, last.pre[s].amount)
            /\ SubstanceOf(s).heat_transfer_coefficient # 0
     /\ TemperatureGap(last.pre) # RZero) =>
        RLt(TemperatureGap(matters), TemperatureGap(last.pre))

\* ------------------------------------------------------------- Formula objects
\* The Formula operators once more, with the dict objects they build and share
\* kept apart from the Formulas that hold them: heap[d] is the content of dict
\* object d, a Formula is [dict, valence], and built[k] is what Formula k was
\* when it was constructed.
MaxFormulas == 4

Deref(heap, f) == Formula(heap[f.dict], f.valence)

\* element_count = self.element_count, with no copy: the same dict object
AliasDict(heap, d) == [heap |-> heap, dict |-> d]

\* self.element_count.copy(): a new dict object with the same content
CopyDict(heap, d) == [heap |-> Append(heap, heap[d]), dict |-> Len(heap) + 1]

\* __mul__: the comprehension builds a new dict object
ObjMul(heap, f, t) ==
    [heap |-> Append(heap, [e \in DOMAIN heap[f.dict] |-> heap[f.dict][e] * t]),
     value |-> [dict |-> Len(heap) + 1, valence |-> f.valence * t]]

\* __add__ lines 27-31: the loop over other.element_count.items(), writing
\* into dict object d
RECURSIVE AddLoop(_, _, _, _, _)
AddLoop(heap, d, other, keys, i) ==
    IF i > Len(keys) THEN heap
    ELSE LET element == keys[i]
             count == heap[other][element]
         IN  AddLoop([heap EXCEPT ![d] =
                         IF element \in DOMAIN heap[d]
                         THEN [heap[d] EXCEPT ![element] = @ + count]
                         ELSE (element :> count) @@ heap[d]],
                     d, other, keys, i + 1)

\* __add__, from the dict object c it starts with
ObjAddInto(c, f, g) ==
    [heap |-> AddLoop(c.heap, c.dict, g.dict, SetToSeq(DOMAIN c.heap[g.dict]), 1),
     value |-> [dict |-> c.dict, valence |-> f.valence + g.valence]]

ObjAdd(heap, f, g) == ObjAddInto(CopyDict(heap, f.dict), f, g)

\* __and__ line 40, given self * t1 and then other * t2
ObjAndSum(a, b) == ObjAdd(b.heap, a.value, b.value)

ObjAndSecond(a, g, t2) == ObjAndSum(a, ObjMul(a.heap, g, t2))

\* __and__: [err, heap, value]
ObjAnd(heap, f, g) ==
    IF AndRaises(f, g)
    THEN [err |-> "ValueError", heap |-> heap, value |-> f]
    ELSE [err |-> "none"] @@ ObjAndSecond(ObjMul(heap, f, AndT1(f, g)), g, AndT2(f, g))

\* the Formulas a session starts with, each holding a dict object of its own
ObjectFormulas ==
    {f \in Formulas : f.element_count # <<>> /\ f.valence \in {-2, 0, 3}
                      /\ \A e \in DOMAIN f.element_count : f.element_count[e] = 1}

InitObjects ==
    /\ fcase \in {[op |-> "objects", err |-> "none",
                   heap |-> <<f.element_count, g.element_count>>,
                   formulas |-> <<[dict |-> 1, valence |-> f.valence],
                                  [dict |-> 2, valence |-> g.valence]>>,
                   built |-> <<Formula(f.element_count, f.valence),
                               Formula(g.element_count, g.valence)>>] :
                    f \in ObjectFormulas, g \in ObjectFormulas}
    /\ matters = [s \in {} |-> 0]
    /\ reactions = <<>>
    /\ tick = R(1)
    /\ ticks = 0
    /\ last = Idle
    /\ bcase = Idle
    /\ mcase = Idle

\* the operator returned r: the new Formula joins the ones built so far
Built(r, op) ==
    /\ fcase' = [fcase EXCEPT !.op = op, !.err = "none", !.heap = r.heap,
                              !.formulas = Append(@, r.value),
                              !.built = Append(@, Deref(r.heap, r.value))]
    /\ UNCHANGED <<matters, reactions, tick, ticks, last, bcase, mcase>>

\* formulas[i] * t
OMul(i, t) ==
    /\ Len(fcase.formulas) < MaxFormulas
    /\ i <= Len(fcase.formulas)
    /\ Built(ObjMul(fcase.heap, fcase.formulas[i], t), "mul")

\* formulas[i] + formulas[j]
OAdd(i, j) ==
    /\ Len(fcase.formulas) < MaxFormulas
    /\ i <= Len(fcase.formulas) /\ j <= Len(fcase.formulas)
    /\ Built(ObjAdd(fcase.heap, fcase.formulas[i], fcase.formulas[j]), "add")

\* formulas[i] & formulas[j], which returns a Formula
OAnd(i, j) ==
    /\ Len(fcase.formulas) < MaxFormulas
    /\ i <= Len(fcase.formulas) /\ j <= Len(fcase.formulas)
    /\ ~AndRaises(fcase.formulas[i], fcase.formulas[j])
    /\ Built(ObjAnd(fcase.heap, fcase.formulas[i], fcase.formulas[j]), "and")

\* formulas[i] & formulas[j], which raises
OAndRaises(i, j) ==
    /\ fcase.op # "raised"
    /\ i <= Len(fcase.formulas) /\ j <= Len(fcase.formulas)
    /\ AndRaises(fcase.formulas[i], fcase.formulas[j])
    /\ fcase' = [fcase EXCEPT !.op = "raised", !.err = "ValueError",
                    !.heap = ObjAnd(fcase.heap, fcase.formulas[i], fcase.formulas[j]).heap]
    /\ UNCHANGED <<matters, reactions, tick, ticks, last, bcase, mcase>>

NextObjects ==
    \/ \E i \in 1..MaxFormulas : \E t \in 0..MaxScale : OMul(i, t)
    \/ \E i \in 1..MaxFormulas : \E j \in 1..MaxFormulas : OAdd(i, j)
    \/ \E i \in 1..MaxFormulas : \E j \in 1..MaxFormulas : OAnd(i, j)
    \/ \E i \in 1..MaxFormulas : \E j \in 1..MaxFormulas : OAndRaises(i, j)

SpecObjects == InitObjects /\ [][NextObjects]_vars

\* C13: *, + and & return a new Formula and never change the element_count or
\* the valence of an operand: after any sequence of them every Formula built
\* so far is what it was at construction.
C13_FormulaOpsPure ==
    \A k \in 1..Len(fcase.formulas) : Deref(fcase.heap, fcase.formulas[k]) = fcase.built[k]

\* a Formula has been added to itself, and a sum has been scaled afterwards
C13_Witness ==
    /\ Len(fcase.formulas) = MaxFormulas
    /\ fcase.op = "mul"
    /\ \E k \in 1..2 :
           /\ fcase.built[3] = FormulaAdd(fcase.built[k], fcase.built[k])
           /\ fcase.built[4] = FormulaMul(fcase.built[3], 2)

\* ------------------------------------------------------------- the rate policy's properties
FactoryReactions == {i \in 1..Len(reactions) : reactions[i].speed_multiplier.kind = "factory"}

OutsideWindow(reaction, m) ==
    \E k \in 1..Len(reaction.left) :
        \/ reaction.left[k][1] \notin DOMAIN m
        \/ RLt(m[reaction.left[k][1]].temperature,
               R(reaction.speed_multiplier.min_temperature))
        \/ RLt(R(reaction.speed_multiplier.max_temperature),
               m[reaction.left[k][1]].temperature)

\* every reactant is held in an amount that allows the rate asked
Ample(reaction, m, rate) ==
    \A k \in 1..Len(reaction.left) :
        RLe(RMul(rate, reaction.left[k][2]), m[reaction.left[k][1]].amount)

BaseRate(reaction) == RMul(R(reaction.speed_multiplier.base), tick)

\* the product of the surface_area_multiplier of reactants 1..k, as held in m
RECURSIVE SurfaceFactors(_, _, _)
SurfaceFactors(reaction, m, k) ==
    IF k = 0 THEN R(1)
    ELSE RMul(SurfaceFactors(reaction, m, k - 1),
              m[reaction.left[k][1]].surface_area_multiplier)

\* C15 as stated: a speed_multiplier_factory policy returns 0 when a reactant is
\* absent or outside the temperature window; otherwise, when every reactant is
\* present in ample amount, it returns exactly base * tick_length.
C15_BaseTimesTick ==
    \A i \in FactoryReactions :
        LET reaction == reactions[i]
            multiplier == SpeedMultiplier(tick, reaction, matters)
        IN  /\ OutsideWindow(reaction, matters) => multiplier = RZero
            /\ (~OutsideWindow(reaction, matters)
                /\ Ample(reaction, matters, BaseRate(reaction))) =>
                   multiplier = BaseRate(reaction)

\* C15, amended: ... otherwise, when every reactant is present in ample amount,
\* it returns exactly base * tick_length * the product of the reactants'
\* surface_area_multiplier.
C15_PolicyValue ==
    \A i \in FactoryReactions :
        LET reaction == reactions[i]
            multiplier == SpeedMultiplier(tick, reaction, matters)
            rate == RMul(BaseRate(reaction), SurfaceFactors(reaction, matters, Len(reaction.left)))
        IN  /\ OutsideWindow(reaction, matters) => multiplier = RZero
            /\ (~OutsideWindow(reaction, matters) /\ Ample(reaction, matters, rate)) =>
                   multiplier = rate

\* a reactant with surface_area_multiplier 2, inside the window and ample: the
\* policy returns twice base * tick_length
C15_Witness ==
    \E i \in FactoryReactions :
        LET reaction == reactions[i]
            rate == RMul(BaseRate(reaction), SurfaceFactors(reaction, matters, Len(reaction.left)))
        IN  /\ Len(reaction.left) > 0
            /\ ~OutsideWindow(reaction, matters)
            /\ Ample(reaction, matters, rate)
            /\ SurfaceFactors(reaction, matters, Len(reaction.left)) = R(2)
            /\ SpeedMultiplier(tick, reaction, matters) = RMul(R(2), BaseRate(reaction))

\* ------------------------------------------------------------- the balancer's further properties
\* sum over one side of a Reaction of coefficient * charge
SideCharge(side) ==
    RSumSet(DOMAIN side, [s \in DOMAIN side |-> RMul(side[s], R(SubstanceOf(s).charge))])

Charged(substances) == {i \in 1..Len(substances) : SubstanceOf(substances[i]).charge # 0}

UniquelySolvable(substances) ==
    /\ Rank(MatA(substances), Len(substances) - 1) = Len(substances) - 1
    /\ Solvable(MatA(substances), BalanceVecB(substances), Len(substances) - 1)

\* C17: for every participant list whose equations for x_1..x_{n-1} have
\* exactly one solution, whatever the number of equations relative to the
\* number of unknowns, BalanceReaction returns a Reaction; it raises the
\* cannot-be-balanced error only when there is no unique solution.
C17_SolvesUnique ==
    (bcase.op = "balanced" /\ Len(bcase.substances) > 0) =>
        /\ UniquelySolvable(bcase.substances) => bcase.err = "none"
        /\ bcase.err = "The reaction cannot be balanced." =>
               ~UniquelySolvable(bcase.substances)

\* ------------------------------------------------------------- compute, then apply
\* the entries reaction_process gives for each reaction of the list when each
\* is processed alone on m, one after the other
RECURSIVE ChangesAlone(_, _, _, _)
ChangesAlone(rs, t, m, i) ==
    IF i > Len(rs) THEN EmptyChange
    ELSE Extend(ReactionProcess(rs[i], t, m).change, ChangesAlone(rs, t, m, i + 1))

AllComputed(rs, t, m) ==
    \A i \in 1..Len(rs) : ReactionProcess(rs[i], t, m).err = "none"

\* C18: the change set run() computes is, reaction by reaction, what
\* reaction_process gives for that reaction alone on the pre-tick matters,
\* whatever its position in the list and whatever the other reactions are.
C18_ComputeThenApply ==
    (last.stage # "init" /\ AllComputed(reactions, tick, last.pre)) =>
        last.change = ChangesAlone(reactions, tick, last.pre, 1)

\* two reactions consuming the same reactant have both fired in one tick, the
\* first one's entries being enough to change what the second would compute
C18_Witness ==
    /\ last.stage = "done" /\ last.err = "none"
    /\ Len(reactions) = 2
    /\ AllComputed(reactions, tick, last.pre)
    /\ \A i \in 1..2 : ReactionProcess(reactions[i], tick, last.pre).change # EmptyChange
    /\ LET first == ReactionProcess(reactions[1], tick, last.pre).change
           between == ApplyChanges(last.pre, first)
       IN  /\ between.err = "none"
           /\ ReactionProcess(reactions[2], tick, between.m)
                  # ReactionProcess(reactions[2], tick, last.pre)

\* ------------------------------------------------------------- the heat of a reaction
Fired(i) == SpeedMultiplier(tick, reactions[i], last.pre) # RZero

\* the number of entries the reactions before reaction i put in a list of the
\* change set: one per reactant (add_heat, remove_matter) or one per product
RECURSIVE EntriesBefore(_, _)
EntriesBefore(i, ofLeft) ==
    IF i <= 1 THEN 0
    ELSE EntriesBefore(i - 1, ofLeft) +
         (IF ~Fired(i - 1) THEN 0
          ELSE IF ofLeft THEN Len(reactions[i - 1].left)
          ELSE Len(reactions[i - 1].right))

HeatEntry(i, k) == last.change.add_heat[EntriesBefore(i, TRUE) + k]

RemovedEntry(i, k) == last.change.remove_matter[EntriesBefore(i, TRUE) + k]

AddedEntry(i, k) == last.change.add_matter[EntriesBefore(i, FALSE) + k]

\* energy of the removed reactant quantities minus energy of the produced ones
NetEnergy(i) ==
    RSub(RSumSeq([k \in 1..Len(reactions[i].left) |-> Energy(RemovedEntry(i, k))], 1),
         RSumSeq([k \in 1..Len(reactions[i].right) |-> Energy(AddedEntry(i, k))], 1))

ConsumedTotal(i) ==
    RSumSeq([k \in 1..Len(reactions[i].left) |-> RemovedEntry(i, k).amount], 1)

PresentTotal(i) ==
    RSumSeq([k \in 1..Len(reactions[i].left) |->
                last.pre[reactions[i].left[k][1]].amount], 1)

SharesSum(i) ==
    RSumSeq([k \in 1..Len(reactions[i].left) |-> HeatEntry(i, k)[2]], 1)

\* the change set of the last call was computed for every reaction
Computed == last.stage \in {"apply", "done"}

TotalEnergy(m) == RSumSet(DOMAIN m, [s \in DOMAIN m |-> Energy(m[s])])

NetFlow(m, t, environment_temperature, s) ==
    RAdd(RSumSet(DOMAIN m \ {s},
                 [o \in DOMAIN m \ {s} |-> MatterTransferHeat(t, m[s], m[o])]),
         IF environment_temperature = None THEN RZero
         ELSE TransferHeatEnvironment(t, m[s], environment_temperature))

AmountTemperature(m) == RMul(m.amount, m.temperature)

SameSubstance == mcase.other.substance = mcase.self.substance

TotalInternalEnergy(m) == RSumSet(DOMAIN m, [s \in DOMAIN m |-> InternalEnergy(m[s])])

=============================================================================
